---- MODULE Spec2Model ----
(***************************************************************************)
(* Offset-to-LBA resolution of libutils: the Unix backend                  *)
(* (src/offset2lba.cpp) and the Windows backend                            *)
(* (src/offset2lba_windows.cpp).  One behaviour of Spec is a series of     *)
(* requests (program runs) against one file whose layout does not change.  *)
(* LibSpec is the file renumbering tool (src/libpath.cpp): one behaviour   *)
(* is one run of its main(), or one application of the name transformer.   *)
(* ArgSpec is one call of ArgParser::parse (src/argparser.hpp).            *)
(***************************************************************************)
EXTENDS Integers, Sequences, FiniteSets, TLC

VARIABLES backend, off_t_bits, extents, runs, wholeMap, vol, fileSize, pc,
          offset, fm, volInfo, vcn, rp, lcn, registry, stdout, stderr,
          exitCode, exc, oserr, calls, opened, closed, prev,
          \* libpath
          lp_pc, same_dir, dry_run, src_files, dst_files, dst_dirs, iter,
          dest_paths, scanned, paths, next_path, processed_count, printed,
          loop_ended, counts, lp_exit, probe_p, probe_n, probe_out,
          \* ArgParser
          ap_pc, argv, options_, positional_defs_, positional_args_, lost,
          ap_ret, ap_msg

\* the variables of the offset-to-LBA tool
o2l == <<backend, off_t_bits, extents, runs, wholeMap, vol, fileSize, pc,
         offset, fm, volInfo, vcn, rp, lcn, registry, stdout, stderr,
         exitCode, exc, oserr, calls, opened, closed, prev>>

\* the variables of libpath
lpv == <<lp_pc, same_dir, dry_run, src_files, dst_files, dst_dirs, iter,
         dest_paths, scanned, paths, next_path, processed_count, printed,
         loop_ended, counts, lp_exit, probe_p, probe_n, probe_out>>

\* the variables of ArgParser
apv == <<ap_pc, argv, options_, positional_defs_, positional_args_, lost,
         ap_ret, ap_msg>>

\* the variables a step of the offset-to-LBA tool leaves alone
others == <<lpv, apv>>

vars == <<o2l, lpv, apv>>

env == <<backend, off_t_bits, extents, runs, wholeMap, vol, fileSize>>

(* ------------------------------ bounds -------------------------------- *)
\* longest extent list / run list of the file
MaxExtents == 2
\* largest logical byte offset of the Unix model
MaxOffset == 4
\* largest cluster number of the Windows model
MaxVcn == 2
\* most block devices in /sys/class/block
MaxDevices == 2

(* ------------------------- program constants -------------------------- *)
DEFAULT_SECTOR_SIZE == 512
max_extents == 16

(* --------------------------- small helpers ---------------------------- *)
\* C++ signed integer division and remainder: the quotient is truncated
\* towards zero and the remainder takes the sign of the dividend
Div(a, b) == IF a >= 0 THEN a \div b ELSE -((-a) \div b)
Mod(a, b) == a - b * Div(a, b)

\* exit status of a run that has not ended
NoExit == -1

NoPrev == [kind |-> "none", offset |-> 0, phys |-> 0, ext |-> <<>>]

Line(l, v) == [label |-> l, value |-> v]
ErrLine(m, c) == [msg |-> m, code |-> c]

\* errno / GetLastError values the OS may report
Errnos == {5, 13}
\* a message printed without an OS error code
NoCode == 0

(* ------------------------- Unix environment --------------------------- *)
Extent == [fe_logical : 0..MaxOffset, fe_physical : {510, 1023},
           fe_length : 1..2]

ExtEnd(e) == e.fe_logical + e.fe_length

\* the file's mapping: ordered by logical start, not overlapping
SortedExtents(s) ==
    \A i \in 1..(Len(s) - 1) : ExtEnd(s[i]) <= s[i + 1].fe_logical

ExtentLists ==
    {s \in UNION {[1..n -> Extent] : n \in 0..MaxExtents} : SortedExtents(s)}

Covers(e, o) == e.fe_logical <= o /\ o < ExtEnd(e)

\* what ioctl(FS_IOC_FIEMAP) with fm_start = o, fm_length = 1 and room for
\* max_extents entries may put into fm_extents: the extent overlapping the
\* probe, alone or followed by the extents after it; nothing for a hole
FirstN(s, n) == SubSeq(s, 1, IF Len(s) < n THEN Len(s) ELSE n)

\* A negative offset is stored into the unsigned 64-bit fm_start (line 65)
\* as 2^64 + o, which is past the largest file size of any filesystem:
\* the ioctl has no successful answer for it.
FiemapResponses(es, o) ==
    LET exact == SelectSeq(es, LAMBDA e : Covers(e, o))
        onward == SelectSeq(es, LAMBDA e : ExtEnd(e) > o)
    IN  IF o < 0 THEN {}
        ELSE IF exact = <<>> THEN {<<>>}
        ELSE {FirstN(exact, max_extents), FirstN(onward, max_extents)}

\* /sys/class/block: unavailable, or a list of entries in readdir order,
\* one per block device (device numbers are unique); an entry has a
\* readable or unreadable "dev" attribute and "start" attribute, and
\* device d starts at sector 2048 * d.  The "start" attribute of a device
\* other than the file's is never opened (lines 106-108), so only the
\* file's device is given an unreadable one.
st_dev == 1
RegEntry ==
    {e \in [dev : 1..MaxDevices, devOpen : BOOLEAN, startOpen : BOOLEAN,
            start : {2048 * d : d \in 1..MaxDevices}] :
        /\ e.start = 2048 * e.dev
        /\ (e.dev # st_dev) => e.startOpen}
NoRegistry == [avail |-> FALSE, entries |-> <<>>]
Registries ==
    {NoRegistry} \cup
    {[avail |-> TRUE, entries |-> s] :
        s \in {t \in UNION {[1..n -> RegEntry] : n \in 0..MaxDevices} :
                 \A i, j \in 1..Len(t) : i # j => t[i].dev # t[j].dev}}

(* ------------------------ Unix pure functions ------------------------- *)
\* the readdir loop of get_partition_start_sector from entry i on
RECURSIVE ScanRegistry(_, _, _)
ScanRegistry(es, i, dev_id) ==
    IF i > Len(es) THEN 0
    ELSE IF es[i].devOpen /\ es[i].dev = dev_id
         THEN (IF es[i].startOpen THEN es[i].start ELSE 0)
         ELSE ScanRegistry(es, i + 1, dev_id)

get_partition_start_sector_first(reg, dev_id) ==
    IF ~reg.avail \/ reg.entries = <<>> THEN 0 ELSE reg.entries[1].start

\* lines 79-122: 0 when opendir fails, else the result of the readdir loop
get_partition_start_sector(reg, dev_id) ==
    IF ~reg.avail THEN 0 ELSE ScanRegistry(reg.entries, 1, dev_id)

\* the std::ifstream objects the readdir loop opens from entry i on
\* (lines 100 and 110); each is closed when it goes out of scope
RECURSIVE ScanStreams(_, _, _)
ScanStreams(es, i, dev_id) ==
    IF i > Len(es) THEN <<>>
    ELSE LET devStream == IF es[i].devOpen THEN << <<"dev", i>> >> ELSE <<>>
             startStream ==
                 IF es[i].startOpen THEN << <<"start", i>> >> ELSE <<>>
         IN  IF es[i].devOpen /\ es[i].dev = dev_id
             THEN devStream \o startStream
             ELSE devStream \o ScanStreams(es, i + 1, dev_id)

PartitionWarning_silent(reg) == <<>>

\* lines 83-87: the only diagnostic of get_partition_start_sector
PartitionWarning(reg) ==
    IF ~reg.avail
    THEN <<ErrLine("Warning: Could not open /sys/class/block", NoCode)>>
    ELSE <<>>

DirHandle == <<"dir", 0>>

closedir_never(reg) == <<>>

\* line 120: closedir on the one path that follows a successful opendir
closedir(reg) == IF reg.avail THEN <<DirHandle>> ELSE <<>>

\* handles get_partition_start_sector acquires and releases
PartitionOpened(reg, dev_id) ==
    IF reg.avail THEN <<DirHandle>> \o ScanStreams(reg.entries, 1, dev_id)
    ELSE <<>>
PartitionClosed(reg, dev_id) ==
    IF reg.avail THEN ScanStreams(reg.entries, 1, dev_id) \o closedir(reg)
    ELSE <<>>

physical_block_address_bytes_last(mapped, o) ==
    mapped[Len(mapped)].fe_physical + (o - mapped[Len(mapped)].fe_logical)

\* line 134: fe_physical + (offset - fe_logical), first extent only.
\* Every extent list of FiemapResponses starts with an extent covering
\* the offset, so the unsigned 64-bit sum does not wrap.
physical_block_address_bytes(mapped, o) ==
    mapped[1].fe_physical + (o - mapped[1].fe_logical)

fs_lba_up(p) == Div(p + DEFAULT_SECTOR_SIZE - 1, DEFAULT_SECTOR_SIZE)

\* line 135
fs_lba(p) == Div(p, DEFAULT_SECTOR_SIZE)

\* line 138
absolute_lba(p, partition_start_lba) == fs_lba(p) + partition_start_lba

(* --------------------------- Unix actions ----------------------------- *)
\* main(), lines 150-163: argument count check, then get_lba
main ==
    /\ backend = "unix" /\ pc = "main"
    /\ \E argc \in {2, 3} :
         IF argc # 3
         THEN /\ stderr' = Append(stderr, ErrLine("Usage", NoCode))
              /\ exitCode' = 1
              /\ pc' = "done"
         ELSE /\ pc' = "get_fiemap_data"
              /\ UNCHANGED <<stderr, exitCode>>
    /\ UNCHANGED <<others, env, offset, fm, volInfo, vcn, rp, lcn, registry, stdout,
                   exc, oserr, calls, opened, closed, prev>>

\* main(), lines 161-171: 1 when a std::system_error was caught, else 0
ExitStatus_swapped(e) == IF e = "system_error" THEN 0 ELSE 1

ExitStatus(e) == IF e = "system_error" THEN 1 ELSE 0

FdHandle == <<"fd", 0>>

\* ~FileDescriptor, lines 21-25: close(fd) if fd >= 0
FileDescriptor_close(fdOk) == IF fdOk THEN <<FdHandle>> ELSE <<>>

\* FileDescriptor(path, flags), line 20: a descriptor exists if open worked
FileDescriptor_open(fdOk) == IF fdOk THEN <<FdHandle>> ELSE <<>>

UnixFail_nocode(m, e, cs, fdOk) ==
    /\ stderr' = Append(stderr, ErrLine(m, NoCode))
    /\ exitCode' = ExitStatus("system_error")
    /\ exc' = "system_error"
    /\ oserr' = e
    /\ calls' = calls \o cs
    /\ opened' = opened \o FileDescriptor_open(fdOk)
    /\ closed' = closed \o FileDescriptor_close(fdOk)
    /\ pc' = "done"
    /\ UNCHANGED <<fm, stdout>>

UnixFail_retry(m, e, cs, fdOk) ==
    /\ stderr' = Append(stderr, ErrLine(m, e))
    /\ exitCode' = ExitStatus("system_error")
    /\ exc' = "system_error"
    /\ oserr' = e
    /\ calls' = calls \o cs \o <<cs[Len(cs)]>>
    /\ opened' = opened \o FileDescriptor_open(fdOk)
    /\ closed' = closed \o FileDescriptor_close(fdOk)
    /\ pc' = "done"
    /\ UNCHANGED <<fm, stdout>>

\* a call of get_fiemap_data fails with errno e after the calls cs: the
\* std::system_error is thrown (lines 51, 57, 72), the descriptor goes out
\* of scope, and the catch block of main(), lines 165-169, reports it
UnixFail(m, e, cs, fdOk) ==
    /\ stderr' = Append(stderr, ErrLine(m, e))
    /\ exitCode' = ExitStatus("system_error")
    /\ exc' = "system_error"
    /\ oserr' = e
    /\ calls' = calls \o cs
    /\ opened' = opened \o FileDescriptor_open(fdOk)
    /\ closed' = closed \o FileDescriptor_close(fdOk)
    /\ pc' = "done"
    /\ UNCHANGED <<fm, stdout>>

\* get_fiemap_data, lines 46-76: open, fstat, ioctl(FS_IOC_FIEMAP)
get_fiemap_data ==
    /\ backend = "unix" /\ pc = "get_fiemap_data"
    /\ \/ \E e \in Errnos :
            UnixFail("Failed to open file", e, <<"open">>, FALSE)
       \/ \E e \in Errnos :
            UnixFail("Failed to get file stats", e, <<"open", "fstat">>,
                     TRUE)
       \/ \E e \in Errnos :
            UnixFail("ioctl(FS_IOC_FIEMAP) failed", e,
                     <<"open", "fstat", "ioctl">>, TRUE)
       \/ /\ \E r \in FiemapResponses(extents, offset) : fm' = r
          /\ calls' = calls \o <<"open", "fstat", "ioctl">>
          /\ opened' = opened \o FileDescriptor_open(TRUE)
          /\ closed' = closed \o FileDescriptor_close(TRUE)
          /\ pc' = "calculate_and_print_lba"
          /\ UNCHANGED <<stdout, stderr, exitCode, exc, oserr>>
    /\ UNCHANGED <<others, env, offset, volInfo, vcn, rp, lcn, registry, prev>>

Unmapped_unlessOne(mapped) == Len(mapped) # 1

\* line 127: fiemap_data->fm_mapped_extents == 0, the only test made on
\* the number of returned extents
Unmapped(mapped) == Len(mapped) = 0

\* line 137: the call of get_partition_start_sector, which finds the
\* registry reg
LocatePartition(reg) ==
    /\ registry' = reg
    /\ calls' = Append(calls, "opendir")
    /\ opened' = opened \o PartitionOpened(reg, st_dev)
    /\ closed' = closed \o PartitionClosed(reg, st_dev)
    /\ stderr' = stderr \o PartitionWarning(reg)

ReturnUnmapped_afterLocator == \E reg \in Registries : LocatePartition(reg)

\* line 130: the return of the unmapped case, before line 137 is reached
ReturnUnmapped == UNCHANGED <<stderr, calls, registry, opened, closed>>

\* calculate_and_print_lba, lines 125-148, and the return 0 of main()
calculate_and_print_lba ==
    /\ backend = "unix" /\ pc = "calculate_and_print_lba"
    /\ IF Unmapped(fm)
       THEN /\ stdout' = Append(stdout, Line("not mapped", offset))
            /\ ReturnUnmapped
       ELSE \E reg \in Registries :
            LET p == physical_block_address_bytes(fm, offset)
                ps == get_partition_start_sector(reg, st_dev)
            IN  /\ LocatePartition(reg)
                /\ stdout' = stdout \o
                     << Line("File", 0), Line("Offset", offset),
                        Line("----", 0),
                        Line("File System Block Size", 4096),
                        Line("Physical Block Address", p),
                        Line("LBA (relative to filesystem)", fs_lba(p)),
                        Line("Partition Start LBA", ps),
                        Line("Absolute LBA on Disk", absolute_lba(p, ps)) >>
    /\ exitCode' = ExitStatus(exc)
    /\ pc' = "done"
    /\ UNCHANGED <<others, env, offset, fm, volInfo, vcn, rp, lcn, exc, oserr, prev>>

(* ------------------------ Windows environment ------------------------- *)
\* the volume: GetDiskFreeSpace geometry and the first disk extent's
\* StartingOffset (bytes)
Volumes == [sectorsPerCluster : {1, 8}, bytesPerSector : {512},
            StartingOffset : {1048576, 1048832}]

AllocUnit(v) == v.sectorsPerCluster * v.bytesPerSector

\* the file's mapping pairs from VCN 0 on: NextVcn strictly increasing
Run == [NextVcn : 1..(MaxVcn + 1), Lcn : {7, 1000}]

RunLists ==
    {s \in UNION {[1..n -> Run] : n \in 0..MaxExtents} :
        \A i \in 1..(Len(s) - 1) : s[i].NextVcn < s[i + 1].NextVcn}

\* first VCN of run i of a retrieval-pointers buffer
RunStart(b, i) == IF i = 1 THEN b.StartingVcn ELSE b.Extents[i - 1].NextVcn

\* index of the run of the buffer whose [start, NextVcn) holds v, 0 if none
RunIndex(b, v) ==
    IF \E i \in 1..Len(b.Extents) :
          RunStart(b, i) <= v /\ v < b.Extents[i].NextVcn
    THEN CHOOSE i \in 1..Len(b.Extents) :
          RunStart(b, i) <= v /\ v < b.Extents[i].NextVcn
    ELSE 0

WholeBuffer(rs) == [StartingVcn |-> 0, Extents |-> rs]

\* what a successful FSCTL_GET_RETRIEVAL_POINTERS starting at v returns:
\* the runs from the one holding v on, StartingVcn rounded down to that
\* run's first VCN; a driver that rounds down further (whole) returns the
\* mapping from VCN 0.  No buffer is returned past the last run unless the
\* whole mapping is returned.
RetrievalResponses(rs, whole, v) ==
    LET b == WholeBuffer(rs)
        i == RunIndex(b, v)
    IN  IF whole \/ rs = <<>> THEN {b}
        ELSE IF i = 0 THEN {}
        ELSE {[StartingVcn |-> RunStart(b, i),
               Extents |-> SubSeq(rs, i, Len(rs))]}

NoBuffer == [StartingVcn |-> 0, Extents |-> <<>>]
NoVolInfo == [ClusterSize |-> 0, BytesPerSector |-> 0,
              PartitionStartOffset |-> 0]
NoLcn == -1

(* ----------------------- Windows pure functions ----------------------- *)
\* the for loop of FindLcnFromVcn, lines 146-157, from run i on:
\* the first run with v < NextVcn; 0 when the loop falls through
RECURSIVE FirstRunBeyond(_, _, _)
FirstRunBeyond(b, i, v) ==
    IF i > Len(b.Extents) THEN 0
    ELSE IF v < b.Extents[i].NextVcn THEN i
    ELSE FirstRunBeyond(b, i + 1, v)

\* line 154: Extents[i].Lcn + (vcn - retrievalPointers->StartingVcn)
FindLcnFromVcn(b, v) ==
    LET i == FirstRunBeyond(b, 1, v)
    IN  b.Extents[i].Lcn + (v - b.StartingVcn)

\* off_t / DWORD and off_t % DWORD (lines 72, 177).  <sys/types.h> makes
\* off_t a 32-bit long (MSVC, MinGW) or a 64-bit integer (MinGW with
\* _FILE_OFFSET_BITS=64); DWORD is unsigned 32-bit.  With the 32-bit off_t
\* the usual arithmetic conversions make both operands unsigned 32-bit, so
\* a negative a is read as 2^32 + a; b divides 2^32 (cluster sizes are
\* powers of two), hence (2^32 + a) / b = 2^32 / b + floor(a / b) and
\* (2^32 + a) % b = a mod b.  With the 64-bit off_t both operands become
\* signed 64-bit and the division truncates towards zero.
off_t_div(a, b) ==
    IF off_t_bits = 32
    THEN IF a >= 0 THEN a \div b ELSE 65536 * (65536 \div b) + (a \div b)
    ELSE Div(a, b)
off_t_mod(a, b) == IF off_t_bits = 32 THEN a % b ELSE Mod(a, b)

\* line 72
vcn_of(o, ClusterSize) == off_t_div(o, ClusterSize)

offsetInCluster_bySector(o, vi) == off_t_mod(o, vi.BytesPerSector)

\* line 177
offsetInCluster(o, vi) == off_t_mod(o, vi.ClusterSize)

\* line 178
filePhysicalOffset(o, vi, l) == (l * vi.ClusterSize) + offsetInCluster(o, vi)

diskAbsoluteOffset_inVolume(o, vi, l) == filePhysicalOffset(o, vi, l)

\* line 179
diskAbsoluteOffset(o, vi, l) ==
    vi.PartitionStartOffset + filePhysicalOffset(o, vi, l)

absoluteLba_up(o, vi, l) ==
    Div(diskAbsoluteOffset(o, vi, l) + vi.BytesPerSector - 1,
        vi.BytesPerSector)

absoluteLba_byCluster(o, vi, l) ==
    Div(diskAbsoluteOffset(o, vi, l), vi.ClusterSize)

\* line 180
absoluteLba(o, vi, l) == Div(diskAbsoluteOffset(o, vi, l), vi.BytesPerSector)

(* -------------------------- Windows actions --------------------------- *)
FileHandle == <<"file", 0>>
VolumeHandle == <<"volume", 0>>

\* HandleWrapper(HANDLE h), line 17: h is a handle unless CreateFile failed
HandleWrapper_open(h, valid) == IF valid THEN <<h>> ELSE <<>>

\* ~HandleWrapper, lines 18-24: CloseHandle unless INVALID_HANDLE_VALUE
HandleWrapper_close(h, valid) == IF valid THEN <<h>> ELSE <<>>

\* the caller of get_lba: a Failure yields exit code 1
WinExitStatus(e) == IF e = "none" THEN 0 ELSE 1

\* an exception leaves get_lba: the catch blocks, lines 78-87, print to
\* cerr and rethrow; the wrappers in scope release the handles cl
WinFail(m, c, kind, cs, op, cl) ==
    /\ stderr' = Append(stderr, ErrLine(m, c))
    /\ exc' = kind
    /\ oserr' = c
    /\ exitCode' = WinExitStatus(kind)
    /\ calls' = calls \o cs
    /\ opened' = opened \o op
    /\ closed' = closed \o cl
    /\ pc' = "done"
    /\ UNCHANGED <<stdout, volInfo, vcn, rp, lcn>>

\* line 63: offset >= fileSize.QuadPart
BeyondEnd_strict(o, size) == o > size

BeyondEnd(o, size) == o >= size

\* get_lba, lines 51-66: open the file, get its size, check the offset
get_lba ==
    /\ backend = "win" /\ pc = "get_lba"
    /\ \/ \E e \in Errnos :
            WinFail("Failed to open file", e, "system_error",
                    <<"CreateFile">>,
                    HandleWrapper_open(FileHandle, FALSE),
                    HandleWrapper_close(FileHandle, FALSE))
       \/ \E e \in Errnos :
            WinFail("Failed to get file size", e, "system_error",
                    <<"CreateFile", "GetFileSizeEx">>,
                    HandleWrapper_open(FileHandle, TRUE),
                    HandleWrapper_close(FileHandle, TRUE))
       \/ /\ BeyondEnd(offset, fileSize)
          /\ WinFail("Offset is beyond the end of the file.", NoCode,
                     "runtime_error", <<"CreateFile", "GetFileSizeEx">>,
                     HandleWrapper_open(FileHandle, TRUE),
                     HandleWrapper_close(FileHandle, TRUE))
       \/ /\ ~BeyondEnd(offset, fileSize)
          /\ calls' = calls \o <<"CreateFile", "GetFileSizeEx">>
          /\ opened' = opened \o HandleWrapper_open(FileHandle, TRUE)
          /\ pc' = "GetVolumeInfo"
          /\ UNCHANGED <<stdout, stderr, exitCode, exc, oserr, closed,
                         volInfo, vcn, rp, lcn>>
    /\ UNCHANGED <<others, env, offset, fm, registry, prev>>

\* GetVolumeInfo, lines 90-125, and line 72 of get_lba
GetVolumeInfo ==
    /\ backend = "win" /\ pc = "GetVolumeInfo"
    /\ \/ \E e \in Errnos :
            WinFail("Failed to get volume path name", e, "system_error",
                    <<"GetVolumePathName">>, <<>>,
                    HandleWrapper_close(FileHandle, TRUE))
       \/ \E e \in Errnos :
            WinFail("Failed to get disk free space", e, "system_error",
                    <<"GetVolumePathName", "GetDiskFreeSpace">>, <<>>,
                    HandleWrapper_close(FileHandle, TRUE))
       \/ \E e \in Errnos :
            WinFail("Failed to open volume", e, "system_error",
                    <<"GetVolumePathName", "GetDiskFreeSpace",
                      "CreateFileVolume">>,
                    HandleWrapper_open(VolumeHandle, FALSE),
                    HandleWrapper_close(VolumeHandle, FALSE) \o
                        HandleWrapper_close(FileHandle, TRUE))
       \/ \E e \in Errnos :
            WinFail("IOCTL_VOLUME_GET_VOLUME_DISK_EXTENTS failed", e,
                    "system_error",
                    <<"GetVolumePathName", "GetDiskFreeSpace",
                      "CreateFileVolume", "GetVolumeDiskExtents">>,
                    HandleWrapper_open(VolumeHandle, TRUE),
                    HandleWrapper_close(VolumeHandle, TRUE) \o
                        HandleWrapper_close(FileHandle, TRUE))
       \/ /\ volInfo' = [ClusterSize |-> AllocUnit(vol),
                         BytesPerSector |-> vol.bytesPerSector,
                         PartitionStartOffset |-> vol.StartingOffset]
          /\ vcn' = vcn_of(offset, AllocUnit(vol))
          /\ calls' = calls \o <<"GetVolumePathName", "GetDiskFreeSpace",
                                 "CreateFileVolume", "GetVolumeDiskExtents">>
          /\ opened' = opened \o HandleWrapper_open(VolumeHandle, TRUE)
          /\ closed' = closed \o HandleWrapper_close(VolumeHandle, TRUE)
          /\ pc' = "FindLcnFromVcn"
          /\ UNCHANGED <<stdout, stderr, exitCode, exc, oserr, rp, lcn>>
    /\ UNCHANGED <<others, env, offset, fm, registry, prev>>

\* line 141: retrievalPointers->ExtentCount == 0
NoExtents_unchecked(b) == FALSE

NoExtents_one(b) == Len(b.Extents) = 1

NoExtents(b) == Len(b.Extents) = 0

\* a std::runtime_error thrown by FindLcnFromVcn on the buffer b (lines
\* 143, 159) and reported by the catch block of get_lba, lines 83-87
FindLcnThrow(m, b) ==
    /\ stderr' = Append(stderr, ErrLine(m, NoCode))
    /\ exc' = "runtime_error"
    /\ oserr' = NoCode
    /\ exitCode' = WinExitStatus("runtime_error")
    /\ calls' = Append(calls, "GetRetrievalPointers")
    /\ closed' = closed \o HandleWrapper_close(FileHandle, TRUE)
    /\ rp' = b
    /\ pc' = "done"
    /\ UNCHANGED <<stdout, opened, lcn>>

\* FindLcnFromVcn, lines 127-160, called at line 73
FindLcn ==
    /\ backend = "win" /\ pc = "FindLcnFromVcn"
    /\ \/ \E e \in Errnos :
            WinFail("FSCTL_GET_RETRIEVAL_POINTERS failed", e, "system_error",
                    <<"GetRetrievalPointers">>, <<>>,
                    HandleWrapper_close(FileHandle, TRUE))
       \/ \E b \in RetrievalResponses(runs, wholeMap, vcn) :
            IF NoExtents(b)
            THEN FindLcnThrow("File has no allocated extents (sparse file?)",
                              b)
            ELSE IF FirstRunBeyond(b, 1, vcn) = 0
            THEN FindLcnThrow("Could not find the LCN for the given offset.",
                              b)
            ELSE /\ lcn' = FindLcnFromVcn(b, vcn)
                 /\ rp' = b
                 /\ calls' = Append(calls, "GetRetrievalPointers")
                 /\ pc' = "CalculateAndPrintLbaInfo"
                 /\ UNCHANGED <<stdout, stderr, exitCode, exc, oserr, opened,
                                closed>>
    /\ UNCHANGED <<others, env, offset, fm, volInfo, vcn, registry, prev>>

\* CalculateAndPrintLbaInfo, lines 175-191, and the return of get_lba
CalculateAndPrintLbaInfo ==
    /\ backend = "win" /\ pc = "CalculateAndPrintLbaInfo"
    /\ stdout' = stdout \o
         << Line("File", 0), Line("Offset", offset), Line("----", 0),
            Line("File System Cluster Size", volInfo.ClusterSize),
            Line("Disk Sector Size", volInfo.BytesPerSector),
            Line("Partition Start Offset",
                 Div(volInfo.PartitionStartOffset, volInfo.BytesPerSector)),
            Line("Absolute Offset on Disk",
                 diskAbsoluteOffset(offset, volInfo, lcn)),
            Line("Absolute LBA on Disk", absoluteLba(offset, volInfo, lcn)) >>
    /\ closed' = closed \o HandleWrapper_close(FileHandle, TRUE)
    /\ exitCode' = WinExitStatus(exc)
    /\ pc' = "done"
    /\ UNCHANGED <<others, env, offset, fm, volInfo, vcn, rp, lcn, registry, stderr,
                   exc, oserr, calls, opened, prev>>

(* ------------------------- observed outcome --------------------------- *)
Has(l) == \E i \in 1..Len(stdout) : stdout[i].label = l
Field(l) == stdout[CHOOSE i \in 1..Len(stdout) : stdout[i].label = l].value

Outcome ==
    IF pc # "done" THEN "Pending"
    ELSE IF Has("Absolute LBA on Disk") THEN "Resolved"
    ELSE IF Has("not mapped") THEN "Unmapped"
    ELSE "Failure"

\* the physical byte address the run reported
PhysicalByteAddress ==
    IF backend = "unix" THEN Field("Physical Block Address")
    ELSE Field("Absolute Offset on Disk")

\* the extent (Unix) or run (Windows) the address was computed from, named
\* by its place in the file
UsedExtent ==
    IF backend = "unix" THEN <<fm[1].fe_logical, fm[1].fe_length,
                               fm[1].fe_physical>>
    ELSE LET i == FirstRunBeyond(rp, 1, vcn)
         IN  <<RunStart(rp, i), rp.Extents[i].NextVcn, rp.Extents[i].Lcn>>

Summary ==
    IF Outcome = "Resolved"
    THEN [kind |-> "Resolved", offset |-> offset,
          phys |-> PhysicalByteAddress, ext |-> UsedExtent]
    ELSE NoPrev

(* ----------------------- requests and behaviours ---------------------- *)
\* offsets a request may name
Offsets ==
    {-1} \cup
    IF backend = "unix" THEN 0..MaxOffset
    ELSE {c * AllocUnit(vol) + r :
            c \in 0..MaxVcn, r \in {0, AllocUnit(vol) - 1}} \cup {100, 101}

FileSizes(v) == {AllocUnit(v), (MaxVcn + 1) * AllocUnit(v)}

StartPc == IF backend = "unix" THEN "main" ELSE "get_lba"

Fresh ==
    /\ fm = <<>> /\ volInfo = NoVolInfo /\ vcn = 0 /\ rp = NoBuffer
    /\ lcn = NoLcn /\ stdout = <<>> /\ stderr = <<>> /\ exitCode = NoExit
    /\ exc = "none" /\ calls = <<>> /\ registry = NoRegistry
    /\ oserr = NoCode /\ opened = <<>> /\ closed = <<>>

\* libpath is not running
LibIdle ==
    /\ lp_pc = "off" /\ same_dir = FALSE /\ dry_run = FALSE
    /\ src_files = <<>> /\ dst_files = {} /\ dst_dirs = {} /\ iter = 0
    /\ dest_paths = {} /\ scanned = {} /\ paths = <<>> /\ next_path = 0
    /\ processed_count = 0 /\ printed = <<>> /\ loop_ended = TRUE
    /\ counts = <<>> /\ lp_exit = NoExit
    /\ probe_p = <<>> /\ probe_n = 0 /\ probe_out = <<>>

\* the parser is not in use
ArgIdle ==
    /\ ap_pc = "off" /\ argv = <<>> /\ options_ = <<>>
    /\ positional_defs_ = <<>> /\ positional_args_ = <<>> /\ lost = {}
    /\ ap_ret = FALSE /\ ap_msg = "none"

\* the offset-to-LBA tool is not running
O2lIdle ==
    /\ backend = "unix" /\ off_t_bits = 64 /\ extents = <<>> /\ runs = <<>>
    /\ wholeMap = FALSE /\ fileSize = 0
    /\ vol = [sectorsPerCluster |-> 8, bytesPerSector |-> 512,
              StartingOffset |-> 0]
    /\ pc = "off" /\ offset = 0 /\ Fresh /\ prev = NoPrev

Init ==
    /\ backend \in {"unix", "win"}
    /\ IF backend = "unix"
       THEN /\ extents \in ExtentLists
            /\ off_t_bits = 64
            /\ runs = <<>> /\ wholeMap = FALSE
            /\ vol = [sectorsPerCluster |-> 8, bytesPerSector |-> 512,
                      StartingOffset |-> 0]
            /\ fileSize = 0
       ELSE /\ extents = <<>>
            /\ off_t_bits \in {32, 64}
            /\ runs \in RunLists /\ wholeMap \in BOOLEAN
            /\ vol \in Volumes
            /\ fileSize \in FileSizes(vol)
    /\ pc = StartPc
    /\ offset \in Offsets
    /\ Fresh
    /\ prev = NoPrev
    /\ LibIdle
    /\ ArgIdle

\* the program is run again on the same file with another offset; the
\* result of the run that ended is remembered when the new offset is the
\* byte after the old one
NextRequest ==
    /\ pc = "done"
    /\ pc' = StartPc
    /\ offset' \in Offsets
    /\ prev' = IF offset' = offset + 1 THEN Summary ELSE NoPrev
    /\ fm' = <<>> /\ volInfo' = NoVolInfo /\ vcn' = 0 /\ rp' = NoBuffer
    /\ lcn' = NoLcn /\ stdout' = <<>> /\ stderr' = <<>>
    /\ exitCode' = NoExit /\ exc' = "none" /\ calls' = <<>>
    /\ registry' = NoRegistry /\ oserr' = NoCode
    /\ opened' = <<>> /\ closed' = <<>>
    /\ UNCHANGED <<others, env>>

Next ==
    \/ main
    \/ get_fiemap_data
    \/ calculate_and_print_lba
    \/ get_lba
    \/ GetVolumeInfo
    \/ FindLcn
    \/ CalculateAndPrintLbaInfo
    \/ NextRequest

Spec == Init /\ [][Next]_vars

(* ===================================================================== *)
(* libpath (src/libpath.cpp): file names are sequences of characters     *)
(* ===================================================================== *)
\* the byte value of a character of a file name, which std::string
\* operator< compares
Code(c) ==
    CASE c = "." -> 46 [] c = "0" -> 48 [] c = "1" -> 49 [] c = "2" -> 50
      [] c = "3" -> 51 [] c = "4" -> 52 [] c = "5" -> 53 [] c = "6" -> 54
      [] c = "7" -> 55 [] c = "8" -> 56 [] c = "9" -> 57 [] c = "[" -> 91
      [] c = "]" -> 93 [] c = "a" -> 97

Digits == <<"0", "1", "2", "3", "4", "5", "6", "7", "8", "9">>
IsDigit(c) == Code(c) >= 48 /\ Code(c) <= 57
DigitValue(c) == Code(c) - 48

INT_MAX == 2147483647

\* a.string() < b.string(), lines 115-122
RECURSIVE StrLess(_, _)
StrLess(a, b) ==
    IF b = <<>> THEN FALSE
    ELSE IF a = <<>> THEN TRUE
    ELSE IF a[1] # b[1] THEN Code(a[1]) < Code(b[1])
    ELSE StrLess(Tail(a), Tail(b))

\* s.find_last_of(c): the last index of c in s (1-based), 0 for npos
RECURSIVE find_last_of(_, _)
find_last_of(s, c) ==
    IF s = <<>> THEN 0
    ELSE IF s[Len(s)] = c THEN Len(s)
    ELSE find_last_of(SubSeq(s, 1, Len(s) - 1), c)

AllDigits(s) == \A i \in 1..Len(s) : IsDigit(s[i])

\* std::stoi on a string of digits: the value, or -1 for the
\* std::out_of_range thrown when it exceeds INT_MAX
RECURSIVE stoi_from(_, _)
stoi_from(s, acc) ==
    IF s = <<>> THEN acc
    ELSE LET d == DigitValue(s[1])
         IN  IF acc > (INT_MAX - d) \div 10 THEN -1
             ELSE stoi_from(Tail(s), 10 * acc + d)
stoi(s) == stoi_from(s, 0)

\* the decimal digits of n >= 0
RECURSIVE Decimal(_)
Decimal(n) ==
    IF n < 10 THEN <<Digits[n + 1]>>
    ELSE Append(Decimal(n \div 10), Digits[(n % 10) + 1])

\* pad_num, lines 76-81, for n >= 0: setw(6) with fill '0' pads on the
\* left up to the width and never truncates
pad_width == 6
RECURSIVE Zeros(_)
Zeros(k) == IF k <= 0 THEN <<>> ELSE <<"0">> \o Zeros(k - 1)
pad_num(n) == Zeros(pad_width - Len(Decimal(n))) \o Decimal(n)

NoTag == -1

\* extract_trailing_number_tag_generic, lines 133-165: the number of the
\* trailing "[digits]" tag of the stem, NoTag for std::nullopt
extract_trailing_number_tag_generic(stem) ==
    LET pos == find_last_of(stem, "[")
        inner == SubSeq(stem, pos + 1, Len(stem) - 1)
    IN  IF Len(stem) < 3 THEN NoTag
        ELSE IF stem[Len(stem)] # "]" THEN NoTag
        ELSE IF pos = 0 \/ pos + 1 >= Len(stem) THEN NoTag
        ELSE IF ~AllDigits(inner) THEN NoTag
        ELSE stoi(inner)

\* strip_trailing_number_tags, lines 168-197
RECURSIVE strip_trailing_number_tags(_)
strip_trailing_number_tags(s) ==
    LET pos == find_last_of(s, "[")
    IN  IF Len(s) >= 3 /\ s[Len(s)] = "]"
           /\ pos # 0 /\ pos + 1 < Len(s)
           /\ AllDigits(SubSeq(s, pos + 1, Len(s) - 1))
        THEN strip_trailing_number_tags(SubSeq(s, 1, pos - 1))
        ELSE s

\* std::filesystem::path::extension of a file name: from the last '.' on,
\* empty when there is none or when the only '.' is the first character
extension(f) ==
    LET dot == find_last_of(f, ".")
    IN  IF dot = 0 \/ dot = 1 \/ f = <<".", ".">> THEN <<>>
        ELSE SubSeq(f, dot, Len(f))

\* std::filesystem::path::stem: the file name without its extension
path_stem(f) == SubSeq(f, 1, Len(f) - Len(extension(f)))

\* path_ext, lines 230-236
path_ext(f) == extension(f)

\* NameTransformer::transform, lines 208-220: the file name of the result
\* (the directory is dir_); a negative number gives no tag
transform(f, assigned) ==
    LET base == strip_trailing_number_tags(path_stem(f))
        tag == IF assigned >= 0
               THEN <<"[">> \o pad_num(assigned) \o <<"]">>
               ELSE <<>>
    IN  base \o tag \o path_ext(f)

(* ------------------- libpath: the directories of a run ---------------- *)
\* the files a directory holds before the run, at most
MaxFiles == 2
\* the number of regular files the destination's file system has room
\* for; copy_file fails once it is full
MaxDirFiles == 5

\* "a[digits].a"
Tagged(digits) == <<"a", "[">> \o digits \o <<"]", ".", "a">>

\* the file names of the runs: untagged, tagged, tagged with INT_MAX,
\* tagged with a number std::stoi rejects, and a bare tag
FileNames ==
    { <<"a", ".", "a">>,
      Tagged(<<"0", "0", "0", "0", "0", "0">>),
      Tagged(Decimal(INT_MAX)),
      Tagged(<<"9", "9", "9", "9", "9", "9", "9", "9", "9", "9", "9">>),
      <<"[", "1", "]">> }

\* the name of the subdirectory the destination may hold
SubDir == <<"[", "0", "0", "0", "0", "0", "2", "]">>

Range(s) == {s[i] : i \in 1..Len(s)}

\* the listings of a directory: its regular files in the order
\* directory_iterator yields them, which is unspecified; the listings of
\* the model are in descending order, so that the sort reverses them
Listings ==
    {s \in UNION {[1..n -> FileNames] : n \in 0..MaxFiles} :
        \A i, j \in 1..Len(s) : i < j => StrLess(s[j], s[i])}

FileSets == {S \in SUBSET FileNames : Cardinality(S) <= MaxFiles}

\* std::sort with the comparison of lines 115-122
RECURSIVE sort_insert(_, _)
sort_insert(s, x) ==
    IF s = <<>> THEN <<x>>
    ELSE IF StrLess(x, s[1]) THEN <<x>> \o s
    ELSE <<s[1]>> \o sort_insert(Tail(s), x)
RECURSIVE std_sort(_)
std_sort(s) ==
    IF s = <<>> THEN <<>>
    ELSE sort_insert(std_sort(SubSeq(s, 1, Len(s) - 1)), s[Len(s)])

\* FileList::collect_sorted, lines 98-124, of a listing of regular files
collect_sorted(dir) == std_sort(dir)

MAX_ITERATIONS == 10

INT_MIN == -INT_MAX - 1

\* assigned++, lines 288 and 296
increment_stuck(a) == a
increment(a) == a + 1

\* the while loop of lines 295-297: candidates are tried until one is not
\* in taken.  Every negative number gives the same untagged candidate, so
\* from a negative number the loop goes on unchanged until it is at 0.
\* tries is the number of candidates the loop may still try; the loop has
\* not ended when none is left.
RECURSIVE while_count(_, _, _, _, _)
while_count(p, candidate, assigned, taken, tries) ==
    IF candidate \notin taken
    THEN [candidate |-> candidate, assigned |-> assigned, ended |-> TRUE]
    ELSE IF tries = 0
    THEN [candidate |-> candidate, assigned |-> assigned, ended |-> FALSE]
    ELSE IF assigned < 0
    THEN while_count(p, transform(p, 0), increment(0), taken, tries - 1)
    ELSE while_count(p, transform(p, assigned), increment(assigned),
                     taken, tries - 1)

\* dest_paths.insert(candidate), line 311
insert_nothing(set, candidate) == set
insert(set, candidate) == set \cup {candidate}

\* fs::copy_file(p, candidate, skip_existing, ec), line 303: ec is set when
\* the target is a directory or the file system is full; an existing
\* regular file is skipped without an error
copy_fails(candidate) ==
    \/ candidate = <<>>
    \/ candidate \in dst_dirs
    \/ candidate \notin dst_files /\ Cardinality(dst_files) >= MaxDirFiles

(* --------------------------- libpath: a run --------------------------- *)
\* main up to its loop, lines 351-370: the source must be a directory and
\* a missing destination directory is created
lp_main ==
    /\ lp_pc = "main"
    /\ \E source_is_directory, created \in BOOLEAN :
         IF ~source_is_directory
         THEN lp_pc' = "exit" /\ lp_exit' = 1
         ELSE IF ~same_dir /\ dst_files = {} /\ dst_dirs = {} /\ ~created
         THEN lp_pc' = "exit" /\ lp_exit' = 1
         ELSE lp_pc' = "loop" /\ lp_exit' = lp_exit
    /\ UNCHANGED <<o2l, apv, same_dir, dry_run, src_files, dst_files, dst_dirs,
                   iter, dest_paths, scanned, paths, next_path,
                   processed_count, printed, loop_ended, counts, probe_p,
                   probe_n, probe_out>>

\* the head of main's loop, line 375, and process_iteration up to its
\* loop, lines 259-277: the destination's regular files are scanned and
\* the source's are collected
process_iteration ==
    /\ lp_pc = "loop"
    /\ iter < MAX_ITERATIONS
    /\ dest_paths' = dst_files
    /\ scanned' = dst_files
    /\ paths' = collect_sorted(src_files)
    /\ next_path' = 1
    /\ processed_count' = 0
    /\ printed' = <<>>
    /\ lp_pc' = "for_paths"
    /\ UNCHANGED <<o2l, apv, same_dir, dry_run, src_files, dst_files, dst_dirs,
                   iter, loop_ended, counts, lp_exit, probe_p, probe_n,
                   probe_out>>

\* the body of process_iteration's loop for one file, lines 279-313.
\* *tag_opt + 1 overflows for the tag INT_MAX: the build either wraps to
\* INT_MIN or traps.
for_paths ==
    /\ lp_pc = "for_paths"
    /\ next_path <= Len(paths)
    /\ LET p == paths[next_path]
           stem == path_stem(p)
           tag_opt == extract_trailing_number_tag_generic(stem)
       IN  \E overflow \in {"wrap", "trap"} :
             LET assigned == IF tag_opt = NoTag THEN 0
                             ELSE IF tag_opt = INT_MAX THEN INT_MIN
                             ELSE tag_opt + 1
                 first == IF tag_opt # NoTag THEN transform(p, assigned)
                          ELSE transform(p, -1)
                 after == IF tag_opt # NoTag THEN increment(assigned)
                          ELSE assigned
                 loop == while_count(p, first, after, dest_paths,
                                     Cardinality(dest_paths))
                 candidate == loop.candidate
                 ec == ~dry_run /\ copy_fails(candidate)
                 copied == ~dry_run /\ ~ec
             IN  IF tag_opt = INT_MAX /\ overflow = "trap"
                 THEN /\ lp_pc' = "aborted"
                      /\ UNCHANGED <<src_files, dst_files, dest_paths,
                                     next_path, processed_count, printed,
                                     loop_ended>>
                 ELSE IF ~loop.ended
                 THEN /\ lp_pc' = "for_paths"
                      /\ loop_ended' = FALSE
                      /\ UNCHANGED <<src_files, dst_files, dest_paths,
                                     next_path, processed_count, printed>>
                 ELSE /\ lp_pc' = "for_paths"
                      /\ loop_ended' = TRUE
                      /\ printed' = Append(printed,
                                      [old |-> p, new |-> candidate,
                                       exists |-> candidate \in dst_files,
                                       ec |-> ec])
                      /\ dst_files' = IF copied THEN dst_files \cup {candidate}
                                      ELSE dst_files
                      /\ src_files' = IF copied /\ same_dir
                                         /\ candidate \notin dst_files
                                      THEN Append(src_files, candidate)
                                      ELSE src_files
                      /\ dest_paths' = insert(dest_paths, candidate)
                      /\ processed_count' = processed_count + 1
                      /\ next_path' = next_path + 1
    /\ UNCHANGED <<o2l, apv, same_dir, dry_run, dst_dirs, iter, scanned, paths,
                   counts, lp_exit, probe_p, probe_n, probe_out>>

\* processed == 0, line 391
no_files(processed) == processed = 0

\* the end of process_iteration, line 315, and the rest of main's loop,
\* lines 391-406: the loop is left after an iteration that processed no
\* file and after MAX_ITERATIONS iterations
main_loop ==
    /\ lp_pc = "for_paths"
    /\ next_path > Len(paths)
    /\ counts' = Append(counts, processed_count)
    /\ IF no_files(processed_count)
       THEN lp_pc' = "exit" /\ lp_exit' = 0 /\ iter' = iter
       ELSE /\ iter' = iter + 1
            /\ IF iter + 1 < MAX_ITERATIONS
               THEN lp_pc' = "loop" /\ lp_exit' = lp_exit
               ELSE lp_pc' = "exit" /\ lp_exit' = 0
    /\ UNCHANGED <<o2l, apv, same_dir, dry_run, src_files, dst_files, dst_dirs,
                   dest_paths, scanned, paths, next_path, processed_count,
                   printed, loop_ended, probe_p, probe_n, probe_out>>

(* ------------------ libpath: the name transformer alone --------------- *)
\* the longest stem without tags, and the most tags, of a transformed path
MaxStem == 2
MaxTags == 2

SeqsUpTo(S, n) == UNION {[1..k -> S] : k \in 0..n}

RECURSIVE Flatten(_)
Flatten(ss) == IF ss = <<>> THEN <<>> ELSE ss[1] \o Flatten(Tail(ss))

\* bracketed endings: numbers with and without padding, the largest
\* number of six digits, INT_MAX, a number std::stoi rejects, and a
\* bracket that holds no number
TagTexts ==
    { <<"[", "1", "]">>,
      <<"[", "0", "0", "0", "0", "0", "9", "]">>,
      <<"[", "9", "9", "9", "9", "9", "9", "]">>,
      <<"[">> \o Decimal(INT_MAX) \o <<"]">>,
      <<"[", "9", "9", "9", "9", "9", "9", "9", "9", "9", "9", "9", "]">>,
      <<"[", "a", "]">> }

Extensions == {<<>>, <<".", "a">>, <<".">>}

\* the file names given to the transformer: names of directory entries,
\* which are not empty and are neither "." nor ".."
ProbeNames ==
    {stem \o Flatten(tags) \o ext :
        stem \in SeqsUpTo({"a", "[", "]", "."}, MaxStem),
        tags \in SeqsUpTo(TagTexts, MaxTags),
        ext \in Extensions}
      \ {<<>>, <<".">>, <<".", ".">>}

\* the numbers given to the transformer
ProbeNumbers == {-1, 0, 999999, 1000000}

\* one call of NameTransformer::transform, lines 208-220
probe_transform ==
    /\ lp_pc = "probe"
    /\ probe_out' = transform(probe_p, probe_n)
    /\ lp_pc' = "probed"
    /\ UNCHANGED <<o2l, apv, same_dir, dry_run, src_files, dst_files, dst_dirs,
                   iter, dest_paths, scanned, paths, next_path,
                   processed_count, printed, loop_ended, counts, lp_exit,
                   probe_p, probe_n>>

LibInit ==
    /\ O2lIdle /\ ArgIdle
    /\ iter = 0 /\ dest_paths = {} /\ scanned = {} /\ paths = <<>>
    /\ next_path = 0 /\ processed_count = 0 /\ printed = <<>>
    /\ loop_ended = TRUE /\ counts = <<>> /\ lp_exit = NoExit
    /\ probe_out = <<>>
    /\ \/ /\ lp_pc = "main"
          /\ same_dir \in BOOLEAN
          /\ dry_run \in BOOLEAN
          /\ src_files \in Listings
          /\ dst_dirs \in SUBSET {SubDir}
          /\ IF same_dir THEN dst_files = Range(src_files)
             ELSE dst_files \in FileSets
          /\ probe_p = <<>> /\ probe_n = 0
       \/ /\ lp_pc = "probe"
          /\ same_dir = FALSE /\ dry_run = FALSE /\ src_files = <<>>
          /\ dst_files = {} /\ dst_dirs = {}
          /\ probe_p \in ProbeNames
          /\ probe_n \in ProbeNumbers

LibNext ==
    \/ lp_main
    \/ process_iteration
    \/ for_paths
    \/ main_loop
    \/ probe_transform

LibSpec == LibInit /\ [][LibNext]_vars

(* ===================================================================== *)
(* ArgParser (src/argparser.hpp): strings are sequences of characters,   *)
(* an optional is the empty sequence or a sequence of one value          *)
(* ===================================================================== *)
\* the arguments of a command line, at most
MaxArgs == 3
\* the keys of option_map_ whose storage was overwritten, at most
MaxLost == 1

nullopt == <<>>
make_optional(v) == <<v>>
has_value(o) == o # <<>>

\* strip, lines 275-282
strip(s) ==
    IF Len(s) >= 2 /\ s[1] = "-" /\ s[2] = "-" THEN SubSeq(s, 3, Len(s))
    ELSE IF Len(s) >= 1 /\ s[1] = "-" THEN SubSeq(s, 2, Len(s))
    ELSE s

\* arg.find('='), line 85: the first index of '=' (1-based), 0 for npos
RECURSIVE find_equals(_, _)
find_equals(s, i) ==
    IF i > Len(s) THEN 0
    ELSE IF s[i] = "=" THEN i
    ELSE find_equals(s, i + 1)

\* add_option, lines 41-49, and add_flag, lines 51-59: the entry pushed to
\* options_; an empty default is no default
Option(long_name, short_name, required, default_value, is_flag) ==
    [long_name |-> long_name, short_name |-> short_name,
     default_value |-> IF default_value = <<>> THEN nullopt
                       ELSE make_optional(default_value),
     value |-> nullopt, required |-> required, is_flag |-> is_flag]

add_option(long_name, short_name, required, default_value) ==
    Option(long_name, short_name, required, default_value, FALSE)

add_flag(long_name, short_name) ==
    Option(long_name, short_name, FALSE, <<>>, TRUE)

\* add_positional, lines 62-65
add_positional(name, required, default_value) ==
    [name |-> name, required |-> required, value |-> nullopt,
     default_value |-> IF default_value = <<>> THEN nullopt
                       ELSE make_optional(default_value)]

\* the texts of the command lines and declarations
long_help == <<"-", "-", "h", "e", "l", "p">>
short_help == <<"-", "h">>
long_time == <<"-", "t", "i", "m", "e">>
short_time == <<"-", "t">>
long_dest == <<"-", "-", "d", "e", "s", "t">>
short_dest == <<"-", "d">>
long_test == <<"-", "-", "t", "e", "s", "t">>
unknown_x == <<"-", "x">>
text_v == <<"v">>
text_w == <<"w">>
none == <<>>

\* name=value
with_value(name, v) == name \o <<"=">> \o v

\* the parsers: the declarations of test.cpp, lines 22-30, in short, and
\* two with an option and a positional that are not required
Parsers ==
    { [options |-> << add_option(long_time, short_time, FALSE, <<"2">>),
                      add_option(long_dest, short_dest, TRUE, none),
                      add_flag(long_test, none) >>,
       positionals |-> << add_positional("command", TRUE, none) >>],
      [options |-> << add_option(long_dest, short_dest, FALSE, none) >>,
       positionals |-> << add_positional("command", TRUE, none),
                          add_positional("source", FALSE, <<"s">>) >>],
      [options |-> << add_flag(long_test, none) >>,
       positionals |-> << add_positional("source", FALSE, none) >>] }

\* the arguments of the command lines
Arguments ==
    { long_help, short_help, long_dest, with_value(short_dest, text_w),
      with_value(long_dest, text_v), long_test, short_time, text_v,
      text_w, unknown_x }

CommandLines == UNION {[1..n -> Arguments] : n \in 0..MaxArgs}

\* the keys add_option and add_flag put into option_map_, lines 45-48 and
\* 55-58
Keys(options) ==
    {strip(options[k].long_name) :
        k \in {j \in 1..Len(options) : options[j].long_name # <<>>}}
    \cup
    {strip(options[k].short_name) :
        k \in {j \in 1..Len(options) : options[j].short_name # <<>>}}

\* option_map_ after the declarations: a later entry for a key replaces an
\* earlier one
option_map_(options) ==
    [key \in Keys(options) |->
        CHOOSE k \in 1..Len(options) :
            /\ key \in Keys(<<options[k]>>)
            /\ \A j \in (k + 1)..Len(options) : key \notin Keys(<<options[j]>>)]

\* option_map_.find(key), lines 91, 173 and 185: the index of the option,
\* 0 for end().  The keys are string_views of the strings passed to
\* add_option and add_flag (lines 45-48, 55-58), which test.cpp passes as
\* temporaries: a key whose storage was overwritten compares unequal.
find(options, key) ==
    IF key \in Keys(options) /\ key \notin lost
    THEN option_map_(options)[key]
    ELSE 0

text_true == <<"t", "r", "u", "e">>

\* the loop of parse, lines 70-135, from argument i on (argv[0], the
\* program, is not in argv); failed names the return before the end
RECURSIVE parse_loop(_, _, _, _, _)
parse_loop(i, pos_idx, options, positionals, args) ==
    LET result(failed) ==
            [failed |-> failed, options |-> options,
             positionals |-> positionals, args |-> args]
    IN
    IF i > Len(argv) THEN result("none")
    ELSE
    LET arg == argv[i]
        equals_pos == find_equals(arg, 1)
        arg_name == IF equals_pos # 0 THEN SubSeq(arg, 1, equals_pos - 1)
                    ELSE arg
        arg_val == IF equals_pos # 0
                   THEN make_optional(SubSeq(arg, equals_pos + 1, Len(arg)))
                   ELSE nullopt
        it == find(options, strip(arg_name))
        set(v) == [options EXCEPT ![it].value = make_optional(v)]
    IN
    IF arg = long_help \/ arg = short_help THEN result("help")
    ELSE IF arg[1] = "-"
    THEN IF it = 0 THEN result("unknown")
         ELSE IF options[it].is_flag
         THEN parse_loop(i + 1, pos_idx, set(text_true), positionals, args)
         ELSE IF has_value(arg_val)
         THEN parse_loop(i + 1, pos_idx, set(arg_val[1]), positionals, args)
         ELSE IF i + 1 <= Len(argv)
         THEN parse_loop(i + 2, pos_idx, set(argv[i + 1]), positionals, args)
         ELSE result("requires a value")
    ELSE IF pos_idx < Len(positionals)
    THEN parse_loop(i + 1, pos_idx + 1, options,
                    [positionals EXCEPT ![pos_idx + 1].value =
                                             make_optional(arg)], args)
    ELSE parse_loop(i + 1, pos_idx, options, positionals, Append(args, arg))

\* the defaults of lines 137-147
set_defaults(entries) ==
    [k \in 1..Len(entries) |->
        IF ~has_value(entries[k].value) /\ has_value(entries[k].default_value)
        THEN [entries[k] EXCEPT !.value = entries[k].default_value]
        ELSE entries[k]]

\* the checks of lines 149-167
missing_required(entries) ==
    \E k \in 1..Len(entries) :
        entries[k].required /\ ~has_value(entries[k].value)

\* ArgParser::parse, lines 67-169
parse ==
    /\ ap_pc = "parse"
    /\ LET r == parse_loop(1, 0, options_, positional_defs_,
                           positional_args_)
           options == set_defaults(r.options)
           positionals == set_defaults(r.positionals)
       IN  IF r.failed # "none"
           THEN /\ options_' = r.options
                /\ positional_defs_' = r.positionals
                /\ ap_ret' = FALSE
                /\ ap_msg' = r.failed
                /\ positional_args_' = r.args
           ELSE /\ options_' = options
                /\ positional_defs_' = positionals
                /\ positional_args_' = r.args
                /\ ap_ret' = ~(missing_required(options)
                               \/ missing_required(positionals))
                /\ ap_msg' = IF missing_required(options)
                             THEN "missing option"
                             ELSE IF missing_required(positionals)
                             THEN "missing positional"
                             ELSE "none"
    /\ ap_pc' = "parsed"
    /\ UNCHANGED <<o2l, lpv, argv, lost>>

\* ArgParser::get, lines 171-181
get(name) ==
    LET it == find(options_, name)
    IN  IF it # 0 /\ has_value(options_[it].value) THEN options_[it].value
        ELSE nullopt

\* ArgParser::is_set, lines 183-191
is_set(name) ==
    LET it == find(options_, name)
    IN  IF it # 0 THEN has_value(options_[it].value) ELSE FALSE

\* ArgParser::positional, lines 193-196
positional == positional_args_

\* ArgParser::get_positional, lines 199-212: the first declared positional
\* of that name that has a value or a default
get_positional(name) ==
    LET found == {k \in 1..Len(positional_defs_) :
                    /\ positional_defs_[k].name = name
                    /\ \/ has_value(positional_defs_[k].value)
                       \/ has_value(positional_defs_[k].default_value)}
        k == CHOOSE j \in found : \A m \in found : j <= m
    IN  IF found = {} THEN nullopt
        ELSE IF has_value(positional_defs_[k].value)
        THEN positional_defs_[k].value
        ELSE positional_defs_[k].default_value

ArgInit ==
    /\ O2lIdle /\ LibIdle
    /\ ap_pc = "parse"
    /\ \E parser \in Parsers :
         /\ options_ = parser.options
         /\ positional_defs_ = parser.positionals
    /\ positional_args_ = <<>>
    /\ argv \in CommandLines
    /\ lost \in {keys \in SUBSET Keys(options_) :
                    Cardinality(keys) <= MaxLost}
    /\ ap_ret = FALSE /\ ap_msg = "none"

ArgNext == parse

ArgSpec == ArgInit /\ [][ArgNext]_vars

(* ------------------------------ properties ---------------------------- *)
\* q is the integer floor of d / s
IsFloor(q, d, s) == q * s <= d /\ d < (q + 1) * s

Called(c) == \E i \in 1..Len(calls) : calls[i] = c

\* the volume's facts, as the environment has them
ClusterBytes == AllocUnit(vol)
SectorBytes == vol.bytesPerSector
PartitionStartBytes == vol.StartingOffset

\* bytes from the start of the volume, from the resolved lcn
PhysicalOffsetInVolume == lcn * ClusterBytes + (offset % ClusterBytes)

\* C1: Windows LBA calculation.  In every resolved Windows request with
\* offset >= 0 the reported disk offset is partition start + lcn * cluster size + (offset
\* mod cluster size) and the reported LBA is its floor quotient by the
\* sector size; the worked example (4096, 512, 2048 * 512, lcn 1000,
\* offset 100) reports 5144676 and 10048.
C1_WindowsLbaCalculation ==
    (backend = "win" /\ Outcome = "Resolved" /\ offset >= 0) =>
        /\ Field("Absolute Offset on Disk")
              = PartitionStartBytes + PhysicalOffsetInVolume
        /\ IsFloor(Field("Absolute LBA on Disk"),
                   PartitionStartBytes + PhysicalOffsetInVolume, SectorBytes)
        /\ (/\ ClusterBytes = 4096 /\ SectorBytes = 512
            /\ PartitionStartBytes = 2048 * 512
            /\ lcn = 1000 /\ offset = 100)
           => /\ Field("Absolute Offset on Disk") = 5144676
              /\ Field("Absolute LBA on Disk") = 10048

C1_Witness ==
    /\ backend = "win" /\ Outcome = "Resolved"
    /\ ClusterBytes = 4096 /\ SectorBytes = 512
    /\ PartitionStartBytes = 2048 * 512
    /\ lcn = 1000 /\ offset = 100
    /\ Field("Absolute LBA on Disk") = 10048

\* C2: Unix extent resolution.  Whenever the extent-map query returned at
\* least one extent, the reported physical byte address is computed from
\* the first returned extent: physical start + (offset - logical start).
C2_UnixFirstExtent ==
    (backend = "unix" /\ pc = "done" /\ Len(fm) >= 1) =>
        /\ Has("Physical Block Address")
        /\ Field("Physical Block Address")
              = fm[1].fe_physical + (offset - fm[1].fe_logical)

C2_Witness ==
    /\ backend = "unix" /\ Outcome = "Resolved" /\ Len(fm) = 2
    /\ fm[2].fe_physical - fm[2].fe_logical
          # fm[1].fe_physical - fm[1].fe_logical
    /\ offset > fm[1].fe_logical

\* C3: Unix LBA calculation.  Once an extent was returned the calculation
\* ends with a result and no error: the filesystem-relative LBA is the
\* floor of the physical byte address by the sector size and the absolute
\* LBA is that plus the partition start LBA.
C3_UnixLbaCalculation ==
    (backend = "unix" /\ pc = "done" /\ Len(fm) >= 1) =>
        /\ Outcome = "Resolved" /\ exc = "none" /\ exitCode = 0
        /\ IsFloor(Field("LBA (relative to filesystem)"),
                   Field("Physical Block Address"), DEFAULT_SECTOR_SIZE)
        /\ Field("Absolute LBA on Disk")
              = Field("LBA (relative to filesystem)")
                + Field("Partition Start LBA")

C3_Witness ==
    /\ backend = "unix" /\ Outcome = "Resolved"
    /\ Field("Physical Block Address") % DEFAULT_SECTOR_SIZE # 0
    /\ Field("Partition Start LBA") = 2048
    /\ Field("Absolute LBA on Disk") = 2049

\* C4: Windows run selection.  Whenever FindLcnFromVcn returned an lcn, the
\* queried vcn lies in a run [start, NextVcn) of the returned buffer and
\* lcn = that run's Lcn + (vcn - that run's own start).
C4_RunSelection ==
    (backend = "win" /\ pc = "CalculateAndPrintLbaInfo") =>
        LET i == RunIndex(rp, vcn)
        IN  /\ i # 0
            /\ lcn = rp.Extents[i].Lcn + (vcn - RunStart(rp, i))

\* C5: floor-division invariant.  In every resolved request of either
\* backend absoluteLBA * sectorSize <= diskAbsoluteOffset
\* < (absoluteLBA + 1) * sectorSize, the disk offset being the partition
\* start in bytes plus the physical offset inside the volume (on Windows
\* the reported disk offset, which for an offset >= 0 is that sum).
C5_FloorDivision ==
    (Outcome = "Resolved") =>
        IF backend = "unix"
        THEN IsFloor(Field("Absolute LBA on Disk"),
                     Field("Partition Start LBA") * DEFAULT_SECTOR_SIZE
                       + Field("Physical Block Address"),
                     DEFAULT_SECTOR_SIZE)
        ELSE /\ IsFloor(Field("Absolute LBA on Disk"),
                        Field("Absolute Offset on Disk"), SectorBytes)
             /\ (offset >= 0) =>
                   Field("Absolute Offset on Disk")
                      = PartitionStartBytes + PhysicalOffsetInVolume

C5_Witness ==
    /\ backend = "win" /\ Outcome = "Resolved"
    /\ PartitionStartBytes % SectorBytes # 0
    /\ (PartitionStartBytes + PhysicalOffsetInVolume) % SectorBytes # 0
    /\ ClusterBytes # SectorBytes

\* the sum of the two LBAs a resolved request reports or implies; on
\* Windows the physical offset in the volume is the reported disk offset
\* less the partition start
LbaSum ==
    IF backend = "unix"
    THEN Field("Partition Start LBA") + Field("LBA (relative to filesystem)")
    ELSE Field("Partition Start Offset")
         + ((Field("Absolute Offset on Disk") - PartitionStartBytes)
              \div SectorBytes)

\* C6 as stated: in every resolved request absoluteLBA = partitionStartLBA
\* + filesystemRelativeLBA, on Windows for every partition start offset.
C6_LbaSumAnyPartitionStart ==
    (Outcome = "Resolved") => Field("Absolute LBA on Disk") = LbaSum

\* C6 amended: in every resolved request absoluteLBA = partitionStartLBA +
\* filesystemRelativeLBA, on Windows for every partition start offset that
\* is a multiple of the sector size.
C6_LbaSumAlignedPartitionStart ==
    (/\ Outcome = "Resolved"
     /\ backend = "win" => PartitionStartBytes % SectorBytes = 0)
    => Field("Absolute LBA on Disk") = LbaSum

C6_Witness ==
    /\ backend = "win" /\ Outcome = "Resolved"
    /\ PartitionStartBytes % SectorBytes = 0
    /\ PhysicalOffsetInVolume % SectorBytes # 0
    /\ ClusterBytes # SectorBytes

\* o lies in the extent or run x (as UsedExtent names it)
InExtent(x, o) ==
    IF backend = "unix" THEN x[1] <= o /\ o < x[1] + x[2]
    ELSE x[1] <= (o \div ClusterBytes) /\ (o \div ClusterBytes) < x[2]

\* C7: contiguity.  When the previous request resolved offset o and this one
\* resolves o + 1, both from the same extent (Unix) or run (Windows) and
\* both lying in it, this physical byte address is the previous one plus 1.
C7_Contiguity ==
    (/\ Outcome = "Resolved" /\ prev.kind = "Resolved"
     /\ offset = prev.offset + 1
     /\ prev.ext = UsedExtent
     /\ InExtent(UsedExtent, prev.offset) /\ InExtent(UsedExtent, offset))
    => PhysicalByteAddress = prev.phys + 1

C7_Witness ==
    /\ backend = "win" /\ Outcome = "Resolved" /\ prev.kind = "Resolved"
    /\ offset = prev.offset + 1
    /\ prev.ext = UsedExtent
    /\ InExtent(UsedExtent, prev.offset) /\ InExtent(UsedExtent, offset)
    /\ offset % ClusterBytes = 0
    /\ ClusterBytes # SectorBytes

\* C8: Unix hole.  When the extent-map query succeeded with zero mapped
\* extents the run ends Unmapped: only the not-mapped line is printed,
\* nothing goes to standard error, no exception, exit status 0.
C8_UnixUnmapped ==
    (/\ backend = "unix" /\ pc = "done" /\ Called("ioctl")
     /\ exc = "none" /\ Len(fm) = 0)
    => /\ Outcome = "Unmapped"
       /\ stdout = <<Line("not mapped", offset)>>
       /\ stderr = <<>>
       /\ exitCode = 0

C8_Witness ==
    /\ backend = "unix" /\ pc = "done" /\ Outcome = "Unmapped"
    /\ extents # <<>> /\ exitCode = 0

\* the file has no allocated extents
FullySparse == IF backend = "unix" THEN extents = <<>> ELSE runs = <<>>

\* the extent query of this request was issued and answered
QueryAnswered ==
    IF backend = "unix" THEN Called("ioctl") /\ exc = "none"
    ELSE Called("GetRetrievalPointers") /\ exc # "system_error"

\* C9 as stated: for a fully sparse file every answered request ends in the
\* non-error Unmapped outcome, on both backends.
C9_SparseIsUnmapped ==
    (FullySparse /\ pc = "done" /\ QueryAnswered)
    => (Outcome = "Unmapped" /\ exc = "none")

\* C9 amended: for a fully sparse file no request ever reports a physical
\* address or LBA; an answered request ends in the non-error Unmapped
\* outcome on Unix and in the runtime error "no allocated extents" on
\* Windows.
C9_SparseNeverResolved ==
    FullySparse =>
        /\ ~Has("Physical Block Address")
        /\ ~Has("Absolute Offset on Disk")
        /\ ~Has("Absolute LBA on Disk")
        /\ (pc = "done" /\ QueryAnswered) =>
             IF backend = "unix"
             THEN Outcome = "Unmapped" /\ exc = "none" /\ exitCode = 0
             ELSE /\ Outcome = "Failure" /\ exc = "runtime_error"
                  /\ stdout = <<>>
                  /\ stderr = <<ErrLine(
                       "File has no allocated extents (sparse file?)",
                       NoCode)>>

C9_Witness ==
    /\ backend = "win" /\ FullySparse /\ pc = "done"
    /\ Called("GetRetrievalPointers") /\ exc = "runtime_error"

\* C10: Windows range check.  A request with offset >= fileSize never gets
\* past the size query: no volume or retrieval-pointer query is issued,
\* nothing is printed on standard output, and unless open or the size query
\* failed it ends with the range error; with offset < fileSize the range
\* error is never raised.
RangeMessage == "Offset is beyond the end of the file."

C10_WindowsRangeError ==
    (backend = "win") =>
        /\ (offset >= fileSize) =>
             /\ pc \in {"get_lba", "done"}
             /\ \A i \in 1..Len(calls) :
                   calls[i] \in {"CreateFile", "GetFileSizeEx"}
             /\ stdout = <<>>
             /\ (pc = "done" /\ exc # "system_error") =>
                   /\ exc = "runtime_error"
                   /\ stderr = <<ErrLine(RangeMessage, NoCode)>>
        /\ (offset < fileSize) =>
             \A i \in 1..Len(stderr) : stderr[i].msg # RangeMessage

C10_Witness ==
    /\ backend = "win" /\ pc = "done" /\ offset = fileSize
    /\ exc = "runtime_error"
    /\ calls = <<"CreateFile", "GetFileSizeEx">>

NoExtentsMessage == "File has no allocated extents (sparse file?)"

\* C11: Windows, zero extents.  When the retrieval-pointer query was
\* answered with a buffer of zero extents, the request has ended with the
\* runtime error "no allocated extents": that message alone is on standard
\* error, no lcn was computed and nothing was printed on standard output.
C11_NoAllocatedExtents ==
    (/\ backend = "win" /\ Called("GetRetrievalPointers")
     /\ exc # "system_error" /\ Len(rp.Extents) = 0)
    => /\ pc = "done" /\ exc = "runtime_error"
       /\ stderr = <<ErrLine(NoExtentsMessage, NoCode)>>
       /\ lcn = NoLcn
       /\ stdout = <<>>

C11_Witness ==
    /\ backend = "win" /\ pc = "done" /\ offset > 0
    /\ calls[Len(calls)] = "GetRetrievalPointers"
    /\ Len(rp.Extents) = 0
    /\ stderr = <<ErrLine(NoExtentsMessage, NoCode)>>

\* the registry entry i exposes the device id d and a partition start
Matches(i, d) ==
    /\ registry.entries[i].devOpen /\ registry.entries[i].dev = d
    /\ registry.entries[i].startOpen

\* C12: Unix partition locator, match.  Whenever the registry read by a
\* resolved request holds an entry whose device id is the file's and whose
\* partition start is readable, the reported partition start is that
\* entry's, wherever the entry stands and whatever the other entries are.
C12_PartitionStartOfMatch ==
    (backend = "unix" /\ Outcome = "Resolved") =>
        \A i \in 1..Len(registry.entries) :
            Matches(i, st_dev) =>
                Field("Partition Start LBA") = registry.entries[i].start

C12_Witness ==
    /\ backend = "unix" /\ Outcome = "Resolved"
    /\ Len(registry.entries) = 2
    /\ Matches(2, st_dev)
    /\ registry.entries[1].devOpen /\ registry.entries[1].startOpen
    /\ registry.entries[1].start # registry.entries[2].start
    /\ Field("Partition Start LBA") = registry.entries[2].start

\* the registry was enumerated and no entry has the device id d
NoMatch(d) ==
    /\ registry.avail
    /\ \A i \in 1..Len(registry.entries) :
          ~(registry.entries[i].devOpen /\ registry.entries[i].dev = d)

\* C13: Unix partition locator, no match.  When the registry was enumerated
\* and no device has the file's device id, the request still resolves
\* with exit status 0, the reported partition start is 0, the absolute LBA
\* equals the filesystem-relative LBA, and a warning is on standard error.
C13_NoMatchWarns ==
    (/\ backend = "unix" /\ pc = "done" /\ Called("opendir")
     /\ NoMatch(st_dev))
    => /\ Outcome = "Resolved" /\ exitCode = 0
       /\ Field("Partition Start LBA") = 0
       /\ Field("Absolute LBA on Disk")
             = Field("LBA (relative to filesystem)")
       /\ stderr # <<>>

RegistryWarning == ErrLine("Warning: Could not open /sys/class/block", NoCode)

\* C14: Unix partition locator, registry unavailable.  When /sys/class/block
\* could not be opened the locator returned 0 and wrote one warning to
\* standard error; no exception was raised and the request resolved with
\* exit status 0 and an absolute LBA equal to the filesystem-relative LBA.
C14_RegistryUnavailable ==
    (/\ backend = "unix" /\ pc = "done" /\ Called("opendir")
     /\ ~registry.avail)
    => /\ Outcome = "Resolved" /\ exc = "none" /\ exitCode = 0
       /\ Field("Partition Start LBA") = 0
       /\ Field("Absolute LBA on Disk")
             = Field("LBA (relative to filesystem)")
       /\ stderr = <<RegistryWarning>>

C14_Witness ==
    /\ backend = "unix" /\ pc = "done" /\ Called("opendir")
    /\ ~registry.avail
    /\ stderr = <<RegistryWarning>>
    /\ Field("Absolute LBA on Disk") = 1

\* the OS operation whose failure the message m reports; the range check
\* follows the size query
FailedCall(m) ==
    CASE m = "Failed to open file" ->
            IF backend = "unix" THEN "open" ELSE "CreateFile"
      [] m = "Failed to get file stats" -> "fstat"
      [] m = "ioctl(FS_IOC_FIEMAP) failed" -> "ioctl"
      [] m = "Failed to get file size" -> "GetFileSizeEx"
      [] m = RangeMessage -> "GetFileSizeEx"
      [] m = "Failed to get volume path name" -> "GetVolumePathName"
      [] m = "Failed to get disk free space" -> "GetDiskFreeSpace"
      [] m = "Failed to open volume" -> "CreateFileVolume"
      [] m = "IOCTL_VOLUME_GET_VOLUME_DISK_EXTENTS failed" ->
            "GetVolumeDiskExtents"
      [] m = "FSCTL_GET_RETRIEVAL_POINTERS failed" -> "GetRetrievalPointers"
      [] OTHER -> "none"

\* the request ended because an OS operation or the range check failed
RangeFailure ==
    /\ pc = "done" /\ exc = "runtime_error"
    /\ Len(stderr) >= 1 /\ stderr[1].msg = RangeMessage
FatalFailure == pc = "done" /\ (exc = "system_error" \/ RangeFailure)

\* the request stopped at the failing step and reported it
AbortedAtFailingStep ==
    /\ stdout = <<>>
    /\ Len(stderr) = 1
    /\ calls # <<>> /\ calls[Len(calls)] = FailedCall(stderr[1].msg)
    /\ exitCode = 1

\* C15 as stated: every fatal failure (open, metadata, a query, the range
\* check) aborts the request at that step, prints nothing on standard
\* output, writes the message together with the OS error code to standard
\* error, and ends with exit code 1.
C15_FailureCarriesOsCode ==
    FatalFailure =>
        /\ AbortedAtFailingStep
        /\ stderr[1].code # NoCode /\ stderr[1].code = oserr

\* C15 amended: every fatal failure aborts the request at that step,
\* prints nothing on standard output and ends with exit code 1; standard
\* error holds the message, together with the OS error code when an OS
\* operation failed and without a code when the range check failed.
C15_FatalFailureAborts ==
    FatalFailure =>
        /\ AbortedAtFailingStep
        /\ IF exc = "system_error"
           THEN stderr[1].code # NoCode /\ stderr[1].code = oserr
           ELSE stderr[1].code = NoCode

C15_Witness ==
    /\ backend = "unix" /\ pc = "done" /\ exc = "system_error"
    /\ calls = <<"open", "fstat", "ioctl">>
    /\ stderr = <<ErrLine("ioctl(FS_IOC_FIEMAP) failed", 13)>>
    /\ exitCode = 1 /\ offset = 2

\* how often the handle h occurs in the sequence s
Count(s, h) == Cardinality({i \in 1..Len(s) : s[i] = h})

HandlesSeen ==
    {opened[i] : i \in 1..Len(opened)} \cup {closed[i] : i \in 1..Len(closed)}

\* C16: resource release.  No handle is ever closed that is not open, and
\* when a request has ended (result, hole or failure) every descriptor,
\* handle, directory handle and stream it opened was opened once and has
\* been closed exactly once.
C16_ReleasedExactlyOnce ==
    \A h \in HandlesSeen :
        /\ Count(opened, h) = 1
        /\ Count(closed, h) <= 1
        /\ (pc = "done") => Count(closed, h) = 1

C16_Witness ==
    /\ backend = "unix" /\ Outcome = "Resolved"
    /\ Len(opened) = 5 /\ Len(closed) = 5
    /\ opened[1] = FdHandle /\ opened[2] = DirHandle

\* C17: the used extent covers the offset.  In every resolved request the
\* extent (Unix) or run (Windows) the address was computed from contains
\* the requested byte offset.
C17_UsedExtentCoversOffset ==
    (Outcome = "Resolved") => InExtent(UsedExtent, offset)

\* C18 as stated: when the extent-map query returned more than one mapped
\* extent the request does not resolve from the first entry: the violation
\* is reported on standard error.
C18_MultipleExtentsReported ==
    (backend = "unix" /\ pc = "done" /\ Len(fm) > 1)
    => (Outcome # "Resolved" /\ stderr # <<>>)

\* C18 amended: when the extent-map query returned more than one mapped
\* extent nothing is asserted or reported about it: the request resolves
\* from the first entry with exit status 0, and standard error holds at
\* most the warning of the partition locator.
C18_MultipleExtentsResolvedFromFirst ==
    (backend = "unix" /\ pc = "done" /\ Len(fm) > 1)
    => /\ Outcome = "Resolved" /\ exc = "none" /\ exitCode = 0
       /\ Field("Physical Block Address")
             = fm[1].fe_physical + (offset - fm[1].fe_logical)
       /\ stderr = (IF registry.avail THEN <<>> ELSE <<RegistryWarning>>)

C18_Witness ==
    /\ backend = "unix" /\ pc = "done" /\ Len(fm) = 2
    /\ Outcome = "Resolved" /\ stderr = <<>> /\ exitCode = 0
    /\ fm[1].fe_logical < offset

\* C19: no retries.  Within one request no OS operation is issued twice,
\* and when an operation failed it is the last one issued and its failure
\* is the one line on standard error.
C19_NoRetry ==
    /\ \A i, j \in 1..Len(calls) : i # j => calls[i] # calls[j]
    /\ (pc = "done" /\ exc = "system_error") =>
          /\ Len(stderr) = 1
          /\ calls[Len(calls)] = FailedCall(stderr[1].msg)

C19_Witness ==
    /\ backend = "win" /\ pc = "done" /\ exc = "system_error"
    /\ Len(calls) = 7 /\ calls[7] = "GetRetrievalPointers"
    /\ stderr = <<ErrLine("FSCTL_GET_RETRIEVAL_POINTERS failed", 5)>>

\* C20: negative offsets.  A request with a negative offset never reports
\* a physical address or an LBA and never ends Resolved, on either backend.
C20_NegativeOffsetNeverResolved ==
    (offset < 0) =>
        /\ Outcome # "Resolved"
        /\ ~Has("Physical Block Address")
        /\ ~Has("Absolute Offset on Disk")
        /\ ~Has("Absolute LBA on Disk")

\* the call named a was issued before the call named b
CalledBefore(a, b) ==
    \E i, j \in 1..Len(calls) : i < j /\ calls[i] = a /\ calls[j] = b

\* C21: Unix ordering.  The block-device registry is read only after the
\* extent-map query succeeded with at least one mapped extent; a request
\* that ends Unmapped or in a failure never read the registry, opened no
\* directory handle and has no partition warning on standard error.
C21_UnixOrdering ==
    (backend = "unix") =>
        /\ Called("opendir") =>
              /\ CalledBefore("ioctl", "opendir")
              /\ exc = "none" /\ Len(fm) >= 1
        /\ (Outcome \in {"Unmapped", "Failure"}) =>
              /\ ~Called("opendir")
              /\ registry = NoRegistry
              /\ Count(opened, DirHandle) = 0
              /\ \A i \in 1..Len(stderr) : stderr[i] # RegistryWarning

C21_Witness ==
    /\ backend = "unix" /\ Outcome = "Resolved"
    /\ calls = <<"open", "fstat", "ioctl", "opendir">>
    /\ registry.avail /\ Len(fm) = 1 /\ prev.kind = "Resolved"

(* -------------------------- libpath properties ------------------------ *)
\* the destination names chosen so far in the running iteration
Chosen == {printed[i].new : i \in 1..Len(printed)}

\* the source file's first candidate was taken
Collided(pair) ==
    LET tag == extract_trailing_number_tag_generic(path_stem(pair.old))
    IN  IF tag = NoTag THEN pair.new # transform(pair.old, -1)
        ELSE tag < INT_MAX /\ pair.new # transform(pair.old, tag + 1)

C23_Termination ==
    /\ iter <= MAX_ITERATIONS /\ Len(counts) <= MAX_ITERATIONS
    /\ lp_pc = "for_paths" => Len(counts) < MAX_ITERATIONS
    /\ \A i \in 1..Len(counts) :
          counts[i] = 0 => i = Len(counts) /\ lp_pc = "exit" /\ lp_exit = 0
    /\ (lp_pc = "exit" /\ lp_exit = 0 /\ Len(counts) < MAX_ITERATIONS)
          => counts[Len(counts)] = 0
    /\ loop_ended

\* the run stopped after MAX_ITERATIONS iterations that all processed
\* files, the last one ending with a file whose first candidate was taken
C23_Witness ==
    /\ lp_pc = "exit" /\ Len(counts) = MAX_ITERATIONS
    /\ \A i \in 1..Len(counts) : counts[i] > 0
    /\ printed # <<>> /\ Collided(printed[Len(printed)])

\* the stem ends in a tag: a bracketed, non-empty run of digits
EndsInTag(stem) ==
    LET pos == find_last_of(stem, "[")
    IN  /\ Len(stem) >= 3 /\ stem[Len(stem)] = "]"
        /\ pos # 0 /\ pos + 1 < Len(stem)
        /\ AllDigits(SubSeq(stem, pos + 1, Len(stem) - 1))

\* the digits of the tag the stem ends in
TagDigits(stem) == SubSeq(stem, find_last_of(stem, "[") + 1, Len(stem) - 1)

\* digits without their leading zeros
RECURSIVE Significant(_)
Significant(ds) ==
    IF Len(ds) > 1 /\ ds[1] = "0" THEN Significant(Tail(ds)) ELSE ds

\* the number written as ds is less than the number written as es
NumLess(ds, es) ==
    LET a == Significant(ds)
        b == Significant(es)
    IN  Len(a) < Len(b) \/ (Len(a) = Len(b) /\ StrLess(a, b))

\* transform(p, n), 0 <= n <= 999999, gives a stem from which n is
\* extracted and whose stripped form is that of p's stem
RoundTrip ==
    (lp_pc = "probed" /\ probe_n >= 0 /\ probe_n <= 999999) =>
        /\ extract_trailing_number_tag_generic(path_stem(probe_out))
             = probe_n
        /\ strip_trailing_number_tags(path_stem(probe_out))
             = strip_trailing_number_tags(path_stem(probe_p))

\* stripping a stripped stem changes nothing
StripIdempotent ==
    lp_pc = "probed" =>
        LET once == strip_trailing_number_tags(path_stem(probe_p))
        IN  strip_trailing_number_tags(once) = once

\* a source file with a tag is given a destination with a greater tag
TagIncreases ==
    \A i \in 1..Len(printed) :
        LET old == path_stem(printed[i].old)
            new == path_stem(printed[i].new)
        IN  EndsInTag(old) =>
                EndsInTag(new) /\ NumLess(TagDigits(old), TagDigits(new))

\* C24: libpath tag round-trip.  For every path p and number n with
\* 0 <= n <= 999999 the stem of transform(p, n) has the extracted tag n
\* and the stripped form of p's stem; strip_trailing_number_tags is
\* idempotent; and a source file whose stem ends in the tag [k] is always
\* given a destination tag strictly greater than k.
C24_TagRoundTrip == RoundTrip /\ StripIdempotent /\ TagIncreases

(* ------------------------- ArgParser properties ----------------------- *)
IsHelp(arg) == arg = long_help \/ arg = short_help
StartsWithDash(arg) == arg # <<>> /\ arg[1] = "-"
HasEquals(arg) == \E i \in 1..Len(arg) : arg[i] = "="

\* the text before the first '=' and the text after it
NameOf(arg) ==
    IF HasEquals(arg)
    THEN SubSeq(arg, 1, (CHOOSE i \in 1..Len(arg) :
                            arg[i] = "=" /\ \A j \in 1..(i - 1) : arg[j] # "=")
                        - 1)
    ELSE arg
ValueOf(arg) == SubSeq(arg, Len(NameOf(arg)) + 2, Len(arg))

\* the declared option the argument names, 0 when it names none
Named(arg) ==
    IF StartsWithDash(arg) /\ ~IsHelp(arg)
       /\ \E k \in 1..Len(options_) : strip(NameOf(arg)) \in Keys(<<options_[k]>>)
    THEN CHOOSE k \in 1..Len(options_) :
            /\ strip(NameOf(arg)) \in Keys(<<options_[k]>>)
            /\ \A j \in (k + 1)..Len(options_) :
                  strip(NameOf(arg)) \notin Keys(<<options_[j]>>)
    ELSE 0

\* argument i names a value option and gives its value as the next
\* argument
TakesNext(i) ==
    /\ Named(argv[i]) # 0 /\ ~options_[Named(argv[i])].is_flag
    /\ ~HasEquals(argv[i]) /\ i < Len(argv)

\* the positions of the command line that are read as arguments, not as
\* the value of the option before them
RECURSIVE MetFrom(_)
MetFrom(i) ==
    IF i > Len(argv) THEN {}
    ELSE {i} \cup MetFrom(IF TakesNext(i) THEN i + 2 ELSE i + 1)
Met == MetFrom(1)

HelpMet == \E i \in Met : IsHelp(argv[i])

UnknownMet ==
    \E i \in Met :
        StartsWithDash(argv[i]) /\ ~IsHelp(argv[i]) /\ Named(argv[i]) = 0

ValueMissing ==
    \E i \in Met :
        /\ i = Len(argv) /\ Named(argv[i]) # 0
        /\ ~options_[Named(argv[i])].is_flag /\ ~HasEquals(argv[i])

\* the positions at which option k is given
Given(k) == {i \in Met : Named(argv[i]) = k}

\* the arguments that are not options, in order
RECURSIVE NonOptionsFrom(_)
NonOptionsFrom(i) ==
    IF i > Len(argv) THEN <<>>
    ELSE (IF i \in Met /\ ~StartsWithDash(argv[i]) THEN <<argv[i]>>
          ELSE <<>>) \o NonOptionsFrom(i + 1)
NonOptions == NonOptionsFrom(1)

RequiredMissing ==
    \/ \E k \in 1..Len(options_) :
         /\ options_[k].required /\ Given(k) = {}
         /\ ~has_value(options_[k].default_value)
    \/ \E k \in 1..Len(positional_defs_) :
         /\ positional_defs_[k].required /\ k > Len(NonOptions)
         /\ ~has_value(positional_defs_[k].default_value)

\* C25: ArgParser::parse returns false exactly when a help argument is
\* met, an argument starting with '-' names no registered option or flag,
\* a value option is the last argument without '=value', or after the
\* defaults a required option or required positional has no value.
C25_ParseReturnsFalseExactly ==
    ap_pc = "parsed" =>
        (ap_ret = FALSE <=>
            HelpMet \/ UnknownMet \/ ValueMissing \/ RequiredMissing)

\* the value given to option k at its last occurrence
LastValue(k) ==
    LET i == CHOOSE m \in Given(k) : \A n \in Given(k) : n <= m
    IN  IF HasEquals(argv[i]) THEN ValueOf(argv[i]) ELSE argv[i + 1]

\* what get and is_set have to answer for option k
Expected(k) ==
    IF Given(k) # {} THEN make_optional(LastValue(k))
    ELSE options_[k].default_value

\* C26: ArgParser values after a successful parse.  For a value option,
\* get(name) returns the value of its last occurrence on the command line
\* ('--opt value' or '--opt=value', by long or short name), otherwise its
\* declared default, and nothing if neither exists; for a flag,
\* is_set(name) is true if and only if the flag appeared; the first N
\* arguments that are not options fill the N declared positionals in
\* declaration order and the further ones are returned, in order, by
\* positional().
C26_ValuesAfterParse ==
    (ap_pc = "parsed" /\ ap_ret) =>
        /\ \A k \in 1..Len(options_) : \A name \in Keys(<<options_[k]>>) :
              IF options_[k].is_flag
              THEN is_set(name) <=> Given(k) # {}
              ELSE get(name) = Expected(k)
        /\ \A k \in 1..Len(positional_defs_) :
              get_positional(positional_defs_[k].name) =
                  IF k <= Len(NonOptions) THEN make_optional(NonOptions[k])
                  ELSE positional_defs_[k].default_value
        /\ positional =
              SubSeq(NonOptions, Len(positional_defs_) + 1, Len(NonOptions))
====
